---- MODULE Spec2Model ----
(***************************************************************************)
(* Route discovery and ranking engine of FlightPathVisualizer              *)
(* (src/script.js): the flight ledger, the service-set helpers, the        *)
(* direct-flight lookup, the route enumerator, the volume/efficiency       *)
(* scorer and the ranker.                                                  *)
(*                                                                         *)
(* Airport keys.  The code uses two textual forms of an airport key: an    *)
(* IATA code ("JFK") and a display name ("New York, USA").  A display      *)
(* name is modelled as the pair <<city, country>> and an IATA code as the  *)
(* one-element tuple <<iata>>, so that key.includes(', ') is Len(key) = 2  *)
(* and key.split(', ')[0] is key[1].                                       *)
(*                                                                         *)
(* JavaScript Sets iterate in insertion order; they are modelled as        *)
(* sequences without repetition.  Real numbers (volumes, ratios) are       *)
(* modelled as exact fractions [num, den].                                 *)
(***************************************************************************)
EXTENDS Integers, Sequences, FiniteSets, TLC

VARIABLES
    file,            \* the response fetch('flightsonetoone.jsonl') will give
    initStep,        \* position of init(): "loadFlightData", "setupUI", "done", "failed"
    errorsShown,     \* number of error toasts showError has appended
    flightData,      \* this.flightData: the loaded airport pairs, in file order
    loaded,          \* loadFlightData has assigned this.flightData
    originOptions,   \* values of the options populateOriginDropdown appended
    selectedOrigin,  \* this.selectedOrigin
    selectedRoute,   \* this.selectedRoute
    columns,         \* the buttons of the four destination columns
    optionsVisible,  \* the flight-options panel is displayed
    detailsVisible,  \* the flight-details panel is displayed
    currentMarkers,  \* this.currentMarkers: the markers on the world map
    timers,          \* ids of the zoom callbacks setTimeout has pending
    zoomTimeout,     \* this.zoomTimeout: the id setTimeout returned last, 0 before
    detect,          \* position of detectUserLocation
    originChosenBy,  \* who set the value of the origin select last
    call,            \* the engine call evaluated last: its name and arguments
    routes,          \* value returned by findRoutesForDestination (after slice)
    leg,             \* value returned by findDirectFlight / getFlightDetails
    services,        \* combined service set computed for an airport key
    merged           \* value returned by combineAirlineData

loadVars == <<file, initStep, errorsShown, flightData, loaded, originOptions>>
uiVars == <<selectedOrigin, selectedRoute, columns, optionsVisible, detailsVisible,
           currentMarkers, timers, zoomTimeout, detect, originChosenBy>>
engineVars == <<call, routes, leg, services, merged>>
vars == <<loadVars, uiVars, engineVars>>

(***************************************************************************)
(* Bounds of the model.                                                    *)
(***************************************************************************)
MaxPairs == 4          \* longest ledger loaded
MaxHubs == 32          \* most transfer airports of a hub ledger
MaxSessionPairs == 3   \* longest ledger of a user session
MaxLines == 3          \* most lines of a file with malformed lines
MaxAirlines == 2       \* most airlines of a leg passed to combineAirlineData
MaxPagePairs == 2      \* longest ledger of a page with location detection

(***************************************************************************)
(* Program constants.                                                      *)
(***************************************************************************)
RouteCap == 30         \* sortedRoutes.slice(0, 30)
VolumeNorm == 84       \* totalVolume / 84
FullYearMonths == 12   \* monthsPerYear for Jan..Dec
SeasonalMonths == 6    \* monthsPerYear for any other season

null == [null |-> TRUE]

\* this.destinations, in the order of the constructor
destinations ==
    << [name |-> "Puerto Plata",  country |-> "Dominican Republic", iata |-> "POP"],
       [name |-> "Santiago",      country |-> "Dominican Republic", iata |-> "STI"],
       [name |-> "Santo Domingo", country |-> "Dominican Republic", iata |-> "SDQ"],
       [name |-> "Punta Cana",    country |-> "Dominican Republic", iata |-> "PUJ"] >>

Range(s) == { s[i] : i \in 1..Len(s) }

(***************************************************************************)
(* Input data: the airports and airline services that the entries of the   *)
(* loaded file are drawn from.  Two airports share a city and country      *)
(* (JFK, LGA); two share a city name in different countries (SJC, SJO).    *)
(***************************************************************************)
JFK == [iata |-> "JFK", city |-> "New York", country |-> "USA", coords |-> "40.64,-73.78"]
LGA == [iata |-> "LGA", city |-> "New York", country |-> "USA", coords |-> "40.78,-73.87"]
SJC == [iata |-> "SJC", city |-> "San Jose", country |-> "USA", coords |-> "37.36,-121.93"]
SJO == [iata |-> "SJO", city |-> "San Jose", country |-> "Costa Rica", coords |-> "9.99,-84.21"]
POP == [iata |-> "POP", city |-> "Puerto Plata", country |-> "Dominican Republic", coords |-> "19.76,-70.57"]

Airports == {JFK, LGA, SJC, SJO, POP}

Daily    == << [airline_name |-> "JetBlue", service_start_month |-> "Jan",
                service_end_month |-> "Dec", days_per_week |-> 7] >>
Seasonal == << [airline_name |-> "JetBlue", service_start_month |-> "Nov",
                service_end_month |-> "Apr", days_per_week |-> 1],
               [airline_name |-> "Delta", service_start_month |-> "Jan",
                service_end_month |-> "Dec", days_per_week |-> 2] >>

\* one parsed line of flightsonetoone.jsonl
AirportPair(a1, a2, minutes, airlines) ==
    [ airport1_iata |-> a1.iata, airport1_city_name |-> a1.city,
      airport1_country |-> a1.country, airport1_coordinates |-> a1.coords,
      airport2_iata |-> a2.iata, airport2_city_name |-> a2.city,
      airport2_country |-> a2.country, airport2_coordinates |-> a2.coords,
      flight_duration_minutes |-> minutes, airlines |-> airlines ]

\* the entries a loaded file may contain
RawEdges ==
    { AirportPair(JFK, POP, 100, Daily),
      AirportPair(POP, JFK, 80, Seasonal),
      AirportPair(JFK, SJC, 100, Daily),
      AirportPair(SJC, POP, 80, Daily),
      AirportPair(JFK, SJO, 100, Seasonal),
      AirportPair(SJO, POP, 80, Daily),
      AirportPair(SJC, SJO, 100, Daily),
      AirportPair(JFK, LGA, 80, Daily),
      AirportPair(POP, LGA, 80, Seasonal) }

RECURSIVE LedgersOfLen(_)
LedgersOfLen(n) ==
    IF n = 0 THEN { <<>> }
    ELSE { Append(l, e) : l \in LedgersOfLen(n - 1), e \in RawEdges }

NoRepeat(l) == \A i, j \in 1..Len(l) : l[i] = l[j] => i = j

\* the ledgers a load may produce: up to MaxPairs distinct entries, any order
Ledgers == UNION { { l \in LedgersOfLen(n) : NoRepeat(l) } : n \in 0..MaxPairs }

\* airline services of other seasons and frequencies
Rare      == << [airline_name |-> "JetBlue", service_start_month |-> "Nov",
                 service_end_month |-> "Apr", days_per_week |-> 1] >>
HalfYears == << [airline_name |-> "JetBlue", service_start_month |-> "Jan",
                 service_end_month |-> "Jun", days_per_week |-> 7],
                [airline_name |-> "Delta", service_start_month |-> "Jun",
                 service_end_month |-> "Dec", days_per_week |-> 3] >>

\* the entries of the ledgers of a user session
SessionEdges ==
    { AirportPair(JFK, SJC, 90, Daily),
      AirportPair(SJC, POP, 120, Daily),
      AirportPair(JFK, POP, 100, HalfYears),
      AirportPair(JFK, SJO, 100, Rare),
      AirportPair(SJO, POP, 80, Rare),
      AirportPair(LGA, POP, 60, Rare) }

RECURSIVE SessionLedgersOfLen(_)
SessionLedgersOfLen(n) ==
    IF n = 0 THEN { <<>> }
    ELSE { Append(l, e) : l \in SessionLedgersOfLen(n - 1), e \in SessionEdges }

SessionLedgers ==
    UNION { { l \in SessionLedgersOfLen(n) : NoRepeat(l) } : n \in 0..MaxSessionPairs }

\* the entries of the ledgers of a page whose location detection and zoom
\* timers run
PageEdges ==
    { AirportPair(JFK, POP, 100, Daily),
      AirportPair(LGA, POP, 60, Rare),
      AirportPair(SJC, POP, 120, Daily),
      AirportPair(JFK, SJC, 90, Daily) }

RECURSIVE PageLedgersOfLen(_)
PageLedgersOfLen(n) ==
    IF n = 0 THEN { <<>> }
    ELSE { Append(l, e) : l \in PageLedgersOfLen(n - 1), e \in PageEdges }

PageLedgers ==
    UNION { { l \in PageLedgersOfLen(n) : NoRepeat(l) } : n \in 0..MaxPagePairs }

\* the airline records of the legs passed to combineAirlineData: on a leg an
\* airline name occurs once
AirlineServices ==
    { [airline_name |-> name, service_start_month |-> season[1],
       service_end_month |-> season[2], days_per_week |-> season[3]] :
        name \in {"JetBlue", "Delta"},
        season \in { <<"Jan", "Dec", 7>>, <<"Nov", "Apr", 1>>, <<"Mar", "Oct", 3>> } }

RECURSIVE AirlineListsOfLen(_)
AirlineListsOfLen(n) ==
    IF n = 0 THEN { <<>> }
    ELSE { Append(l, a) : l \in AirlineListsOfLen(n - 1), a \in AirlineServices }

AirlineLists ==
    UNION { { l \in AirlineListsOfLen(n) :
                \A i, j \in 1..Len(l) : l[i].airline_name = l[j].airline_name => i = j }
            : n \in 0..MaxAirlines }

\* a hub ledger: n airports, each joined to JFK and to POP, with or without
\* the entry JFK-POP itself; every one of the n is a transfer airport
Hub(i) == [iata |-> "H" \o ToString(i), city |-> "Hub " \o ToString(i),
           country |-> "USA", coords |-> "0,0"]

HubPairs(n) ==
    [ k \in 1..(2 * n) |->
        IF k % 2 = 1
        THEN AirportPair(JFK, Hub((k + 1) \div 2), 100 + (k + 1) \div 2, Daily)
        ELSE AirportPair(Hub(k \div 2), POP, 80, Seasonal) ]

HubLedgers ==
    { HubPairs(n) : n \in 0..MaxHubs }
    \cup { <<AirportPair(JFK, POP, 100, Daily)>> \o HubPairs(n) : n \in 0..MaxHubs }

\* the airport keys a caller may pass: every IATA code and display name of
\* the data, and one key that is in no file
IataKeys == { <<a.iata>> : a \in Airports }
DisplayKeys == { <<a.city, a.country>> : a \in Airports }
UnknownKey == <<"Oslo", "Norway">>
Keys == IataKeys \cup DisplayKeys \cup { UnknownKey }

(***************************************************************************)
(* The file flightsonetoone.jsonl as fetch delivers it: the status of the  *)
(* response and the lines of its text.  A line is JSON text, modelled by   *)
(* the value JSON.parse gives for it, or text that JSON.parse rejects.     *)
(***************************************************************************)
JsonLine(value) == [json |-> TRUE, value |-> value]
Garbage == [json |-> FALSE, raw |-> "{airport1_iata:"]
NullLine == JsonLine(null)

JsonLines(ledger, n) == [ i \in 1..n |-> JsonLine(ledger[i]) ]

\* response.ok, with one line for each entry of the ledger
OkResponse(ledger) == [status |-> "ok", text |-> JsonLines(ledger, Len(ledger))]
\* a response whose ok flag is false: the body is the server's error page
NotOkResponse == [status |-> "notOk", text |-> <<Garbage>>]
\* fetch rejects: there is no response
RejectedFetch == [status |-> "rejected", text |-> <<>>]

\* files with malformed lines: any lines, in any number and position, from
\* two entries, text that does not parse and the JSON literal null
LoadLines ==
    { JsonLine(AirportPair(JFK, POP, 100, Daily)),
      JsonLine(AirportPair(SJC, POP, 80, Seasonal)),
      Garbage, NullLine }

RECURSIVE TextsOfLen(_)
TextsOfLen(n) ==
    IF n = 0 THEN { <<>> }
    ELSE { Append(t, line) : t \in TextsOfLen(n - 1), line \in LoadLines }

Texts == UNION { TextsOfLen(n) : n \in 0..MaxLines }

\* either status with any of the texts as body, or no response at all
LoadResponses ==
    { [status |-> st, text |-> t] : st \in {"ok", "notOk"}, t \in Texts }
    \cup { RejectedFetch }

\* what the fetch may deliver when the file holds one of the ledgers given
Responses(ledgers) ==
    { OkResponse(l) : l \in ledgers } \cup { NotOkResponse, RejectedFetch }

(***************************************************************************)
(* Airport-key helpers (script.js 549-594).                                *)
(***************************************************************************)
airport1Key(pair) == <<pair.airport1_city_name, pair.airport1_country>>
airport2Key(pair) == <<pair.airport2_city_name, pair.airport2_country>>

\* for (const airportPair of this.flightData): first entry naming the code,
\* airport1 tested before airport2; the code itself when none does
iataToDisplayName(iata) ==
    LET hit(i) == flightData[i].airport1_iata = iata[1]
                  \/ flightData[i].airport2_iata = iata[1]
        hits == { i \in 1..Len(flightData) : hit(i) }
    IN  IF hits = {} THEN iata
        ELSE LET i == CHOOSE k \in hits : \A m \in hits : k <= m
             IN  IF flightData[i].airport1_iata = iata[1]
                 THEN airport1Key(flightData[i])
                 ELSE airport2Key(flightData[i])

\* first entry naming the city and country, airport1 tested before airport2;
\* the display name itself when none does
displayNameToIata(displayName) ==
    LET hit(i) == airport1Key(flightData[i]) = displayName
                  \/ airport2Key(flightData[i]) = displayName
        hits == { i \in 1..Len(flightData) : hit(i) }
    IN  IF hits = {} THEN displayName
        ELSE LET i == CHOOSE k \in hits : \A m \in hits : k <= m
             IN  IF airport1Key(flightData[i]) = displayName
                 THEN <<flightData[i].airport1_iata>>
                 ELSE <<flightData[i].airport2_iata>>

\* a three-letter code is returned as it is, a display name is converted
getIataFromAirportKey(airportKey) ==
    IF Len(airportKey) = 1 THEN airportKey ELSE displayNameToIata(airportKey)

\* a key containing ', ' is returned as it is, an IATA code is converted
normalizeAirportKey(key) ==
    IF Len(key) = 2 THEN key ELSE iataToDisplayName(key)

(***************************************************************************)
(* Service sets (script.js 596-660).                                       *)
(***************************************************************************)
\* values.forEach(x => set.add(x)): a Set keeps insertion order and does not
\* add a present element again, so the values new to the set follow it, each
\* at the place of its first occurrence
SetAddAll(set, values) ==
    LET fresh == { i \in 1..Len(values) : /\ values[i] \notin Range(set)
                                          /\ \A j \in 1..(i - 1) : values[j] # values[i] }
    IN  set \o [ k \in 1..Cardinality(fresh) |->
                   values[CHOOSE i \in fresh : Cardinality({ j \in fresh : j <= i }) = k] ]

\* the entries among the first n of the ledger that have the airport at one end
Touching(normalizedKey, n) ==
    SelectSeq(SubSeq(flightData, 1, n),
              LAMBDA airportPair : \/ airport1Key(airportPair) = normalizedKey
                                   \/ airport2Key(airportPair) = normalizedKey)

\* the end of the entry that the scan adds to its set
OtherEnd(airportPair, normalizedKey) ==
    IF airport1Key(airportPair) = normalizedKey
    THEN airport2Key(airportPair)
    ELSE airport1Key(airportPair)

\* the ends added for a sequence of entries touching the airport, in order
OtherEnds(touching, normalizedKey) ==
    [ i \in 1..Len(touching) |-> OtherEnd(touching[i], normalizedKey) ]

\* this.flightData.forEach(...) over the first n entries, from new Set()
DirectServicesScan(normalizedKey, n) ==
    SetAddAll(<<>>, OtherEnds(Touching(normalizedKey, n), normalizedKey))

getDirectServicesFromAirport(airportKey) ==
    DirectServicesScan(normalizeAirportKey(airportKey), Len(flightData))

\* the scan of a directed ledger: only the entries that end at the airport
ServingOriginScanInbound(normalizedKey, n) ==
    SetAddAll(<<>>,
              OtherEnds(SelectSeq(SubSeq(flightData, 1, n),
                                  LAMBDA airportPair : airport2Key(airportPair) = normalizedKey),
                        normalizedKey))

ServingOriginScan(normalizedKey, n) ==
    SetAddAll(<<>>, OtherEnds(Touching(normalizedKey, n), normalizedKey))

getAirportsServingOrigin(originKey) ==
    ServingOriginScan(normalizeAirportKey(originKey), Len(flightData))

\* the first n elements of set added to combined
AddAll(combined, set, n) == SetAddAll(combined, SubSeq(set, 1, n))

combineAirportSets(set1, set2) ==
    AddAll(AddAll(<<>>, set1, Len(set1)), set2, Len(set2))

findIntersection(set1, set2) ==
    SelectSeq(set1, LAMBDA airport : airport \in Range(set2))

\* reachableSet(X) of the specification: the combined service set
reachableSet(airportKey) ==
    combineAirportSets(getDirectServicesFromAirport(airportKey),
                       getAirportsServingOrigin(airportKey))

(***************************************************************************)
(* Direct-flight lookup (script.js 662-704).                               *)
(***************************************************************************)
\* the entry returned as it is stored, whatever the direction requested
FlightServiceAsStored(airportPair, isForward) ==
    [ origin_city_name |-> airportPair.airport1_city_name,
      origin_country |-> airportPair.airport1_country,
      origin_airport_iata |-> airportPair.airport1_iata,
      origin_airport_coordinates |-> airportPair.airport1_coordinates,
      flight_duration_minutes |-> airportPair.flight_duration_minutes,
      airlines |-> airportPair.airlines ]

\* the leg built from the entry found, oriented by isForward
FlightService(airportPair, isForward) ==
    [ origin_city_name |-> IF isForward THEN airportPair.airport1_city_name
                           ELSE airportPair.airport2_city_name,
      origin_country |-> IF isForward THEN airportPair.airport1_country
                         ELSE airportPair.airport2_country,
      origin_airport_iata |-> IF isForward THEN airportPair.airport1_iata
                              ELSE airportPair.airport2_iata,
      origin_airport_coordinates |-> IF isForward THEN airportPair.airport1_coordinates
                                     ELSE airportPair.airport2_coordinates,
      flight_duration_minutes |-> airportPair.flight_duration_minutes,
      airlines |-> airportPair.airlines ]

\* the first entry naming the destination, whatever its other airport
findDirectFlightToDestination(originKey, destinationKey) ==
    LET normalizedOriginKey == normalizeAirportKey(originKey)
        normalizedDestinationKey == normalizeAirportKey(destinationKey)
        joins(pair) ==
            \/ airport2Key(pair) = normalizedDestinationKey
            \/ airport1Key(pair) = normalizedDestinationKey
        hits == { i \in 1..Len(flightData) : joins(flightData[i]) }
    IN  IF hits = {} THEN null
        ELSE LET airportPair == flightData[CHOOSE k \in hits : \A m \in hits : k <= m]
                 isForward == airport1Key(airportPair) = normalizedOriginKey
             IN  FlightService(airportPair, isForward)

\* this.flightData.find(...): the first entry joining the two keys in either
\* orientation; null when there is none
findDirectFlight(originKey, destinationKey) ==
    LET normalizedOriginKey == normalizeAirportKey(originKey)
        normalizedDestinationKey == normalizeAirportKey(destinationKey)
        joins(pair) ==
            \/ airport1Key(pair) = normalizedOriginKey
               /\ airport2Key(pair) = normalizedDestinationKey
            \/ airport1Key(pair) = normalizedDestinationKey
               /\ airport2Key(pair) = normalizedOriginKey
        hits == { i \in 1..Len(flightData) : joins(flightData[i]) }
    IN  IF hits = {} THEN null
        ELSE LET airportPair == flightData[CHOOSE k \in hits : \A m \in hits : k <= m]
                 isForward == airport1Key(airportPair) = normalizedOriginKey
             IN  FlightService(airportPair, isForward)

getFlightDetails(originKey, destinationKey) ==
    findDirectFlight(originKey, destinationKey)

findBidirectionalFlight(originKey, destinationKey) ==
    findDirectFlight(originKey, destinationKey)

(***************************************************************************)
(* Airline merge of two legs (script.js 706-749).                          *)
(***************************************************************************)
months == << "Jan", "Feb", "Mar", "Apr", "May", "Jun",
             "Jul", "Aug", "Sep", "Oct", "Nov", "Dec" >>

\* months.indexOf(month): 0-based, -1 when the month is not in the list
indexOf(month) ==
    IF \E i \in 1..Len(months) : months[i] = month
    THEN (CHOOSE i \in 1..Len(months) : months[i] = month) - 1
    ELSE -1

\* months[index]: undefined for the index -1
monthAt(index) == IF index < 0 THEN "undefined" ELSE months[index + 1]

\* the later of the two months, for a start month and for an end month alike
getLaterMonth(month1, month2, isStartMonth) ==
    LET index1 == indexOf(month1)
        index2 == indexOf(month2)
    IN  monthAt(IF index1 >= index2 THEN index1 ELSE index2)

getMoreConservativeMonth(month1, month2, isStartMonth) ==
    LET index1 == indexOf(month1)
        index2 == indexOf(month2)
    IN  IF isStartMonth
        THEN monthAt(IF index1 >= index2 THEN index1 ELSE index2)
        ELSE monthAt(IF index1 <= index2 THEN index1 ELSE index2)

\* airlineMap.set(airline.airline_name, airline): a Map keeps the position
\* of a key that is set again
airlineMapSet(airlineMap, airline) ==
    LET at == { i \in 1..Len(airlineMap) :
                    airlineMap[i].airline_name = airline.airline_name }
    IN  IF at = {} THEN Append(airlineMap, airline)
        ELSE [airlineMap EXCEPT ![CHOOSE i \in at : TRUE] = airline]

\* { ...existing, days_per_week: Math.min(...), service_start_month: ...,
\*   service_end_month: ... }
conservativeAirline(existing, airline) ==
    [ existing EXCEPT
        !.days_per_week = IF existing.days_per_week <= airline.days_per_week
                          THEN existing.days_per_week ELSE airline.days_per_week,
        !.service_start_month =
            getMoreConservativeMonth(existing.service_start_month,
                                     airline.service_start_month, TRUE),
        !.service_end_month =
            getMoreConservativeMonth(existing.service_end_month,
                                     airline.service_end_month, FALSE) ]

\* the airlines of all the segments of a list, in iteration order
RECURSIVE segmentAirlines(_, _)
segmentAirlines(segments, n) ==
    IF n = 0 THEN <<>>
    ELSE segmentAirlines(segments, n - 1) \o segments[n].airlines

\* airlines1.forEach(segment => segment.airlines.forEach(...set...))
RECURSIVE processFirst(_, _)
processFirst(list, n) ==
    IF n = 0 THEN <<>> ELSE airlineMapSet(processFirst(list, n - 1), list[n])

\* airlines2.forEach(segment => segment.airlines.forEach(...combine...))
RECURSIVE processSecond(_, _, _)
processSecond(airlineMap, list, n) ==
    IF n = 0 THEN airlineMap
    ELSE LET before == processSecond(airlineMap, list, n - 1)
             airline == list[n]
             at == { i \in 1..Len(before) :
                         before[i].airline_name = airline.airline_name }
         IN  IF at # {}
             THEN airlineMapSet(before,
                      conservativeAirline(before[CHOOSE i \in at : TRUE], airline))
             ELSE airlineMapSet(before, airline)

\* Array.from(airlineMap.values())
combineAirlineData(airlines1, airlines2) ==
    LET first == segmentAirlines(airlines1, Len(airlines1))
        second == segmentAirlines(airlines2, Len(airlines2))
    IN  processSecond(processFirst(first, Len(first)), second, Len(second))

(***************************************************************************)
(* Exact fractions for the scorer's real numbers.                          *)
(***************************************************************************)
RECURSIVE GCD(_, _)
GCD(a, b) == IF b = 0 THEN a ELSE GCD(b, a % b)

\* the fraction n/d in lowest terms (n >= 0, d > 0)
Frac(n, d) == LET g == GCD(n, d) IN [num |-> n \div g, den |-> d \div g]
FracMul(x, y) == Frac(x.num * y.num, x.den * y.den)
FracAdd(x, y) == Frac(x.num * y.den + y.num * x.den, x.den * y.den)
FracDiv(x, y) == Frac(x.num * y.den, x.den * y.num)
FracLeq(x, y) == x.num * y.den <= y.num * x.den
FracLess(x, y) == x.num * y.den < y.num * x.den
FracMax(x, y) == IF FracLess(x, y) THEN y ELSE x
VolumeFloor == Frac(1, 10)     \* the 0.1 of Math.max(overallVolumeFactor, 0.1)

(***************************************************************************)
(* Volume/efficiency scorer (script.js 751-805).                           *)
(***************************************************************************)
\* twelve months as soon as the season starts in Jan or ends in Dec
monthsPerYearEitherEnd(airline) ==
    IF airline.service_start_month = "Jan" \/ airline.service_end_month = "Dec"
    THEN FullYearMonths ELSE SeasonalMonths

monthsPerYear(airline) ==
    IF airline.service_start_month = "Jan" /\ airline.service_end_month = "Dec"
    THEN FullYearMonths ELSE SeasonalMonths

RECURSIVE totalVolume(_, _)
totalVolume(airlines, n) ==
    IF n = 0 THEN 0
    ELSE totalVolume(airlines, n - 1)
         + monthsPerYear(airlines[n]) * airlines[n].days_per_week

calculateSegmentVolume(segment) ==
    Frac(totalVolume(segment.airlines, Len(segment.airlines)), VolumeNorm)

\* the volumes of the two legs added, without the duration weights
calculateRouteVolumeSummed(route) ==
    IF route.type = "direct"
    THEN calculateSegmentVolume(route.segments[1])
    ELSE FracAdd(calculateSegmentVolume(route.segments[1]),
                 calculateSegmentVolume(route.segments[2]))

\* each leg's volume weighted by the duration of the other leg
calculateRouteVolumeCrossWeighted(route) ==
    IF route.type = "direct"
    THEN calculateSegmentVolume(route.segments[1])
    ELSE LET segment1 == route.segments[1]
             segment2 == route.segments[2]
             volume1 == calculateSegmentVolume(segment1)
             volume2 == calculateSegmentVolume(segment2)
             duration1 == segment1.flight_duration_minutes
             duration2 == segment2.flight_duration_minutes
             totalDuration == duration1 + duration2
             weight1 == Frac(duration2, totalDuration)
             weight2 == Frac(duration1, totalDuration)
         IN  FracAdd(FracMul(weight1, volume1), FracMul(weight2, volume2))

calculateRouteVolume(route) ==
    IF route.type = "direct"
    THEN calculateSegmentVolume(route.segments[1])
    ELSE LET segment1 == route.segments[1]
             segment2 == route.segments[2]
             volume1 == calculateSegmentVolume(segment1)
             volume2 == calculateSegmentVolume(segment2)
             duration1 == segment1.flight_duration_minutes
             duration2 == segment2.flight_duration_minutes
             totalDuration == duration1 + duration2
             weight1 == Frac(duration1, totalDuration)
             weight2 == Frac(duration2, totalDuration)
         IN  FracAdd(FracMul(weight1, volume1), FracMul(weight2, volume2))

\* the route volume used as it is, without the floor of 0.1
ScoredUnfloored(route) ==
    LET volumeFactor == calculateRouteVolume(route)
    IN  [ type |-> route.type, duration |-> route.duration,
          segments |-> route.segments, destination |-> route.destination,
          via |-> route.via, transferAirport |-> route.transferAirport,
          volumeFactor |-> volumeFactor,
          efficiencyRatio |-> FracDiv(Frac(route.duration, 1), volumeFactor) ]

\* the ratio taken as the product of the duration and the volume factor
ScoredByProduct(route) ==
    LET volumeFactor == FracMax(calculateRouteVolume(route), VolumeFloor)
    IN  [ type |-> route.type, duration |-> route.duration,
          segments |-> route.segments, destination |-> route.destination,
          via |-> route.via, transferAirport |-> route.transferAirport,
          volumeFactor |-> volumeFactor,
          efficiencyRatio |-> FracMul(Frac(route.duration, 1), volumeFactor) ]

\* routes.forEach(route => { route.volumeFactor = ...; route.efficiencyRatio = ... })
Scored(route) ==
    LET volumeFactor == FracMax(calculateRouteVolume(route), VolumeFloor)
    IN  [ type |-> route.type, duration |-> route.duration,
          segments |-> route.segments, destination |-> route.destination,
          via |-> route.via, transferAirport |-> route.transferAirport,
          volumeFactor |-> volumeFactor,
          efficiencyRatio |-> FracDiv(Frac(route.duration, 1), volumeFactor) ]

(***************************************************************************)
(* Route enumerator and ranker (script.js 455-547).                        *)
(***************************************************************************)
destinationKey(destination) == <<destination.name, destination.country>>

DirectRoute(directFlight, destination) ==
    [ type |-> "direct", duration |-> directFlight.flight_duration_minutes,
      segments |-> <<directFlight>>, destination |-> destination.name,
      via |-> <<>>, transferAirport |-> <<>> ]

\* the total duration taken from the first leg alone
ConnectingRouteFirstLegOnly(firstLegDetails, secondLegDetails, transferAirportKey, destination) ==
    [ type |-> "connecting",
      duration |-> firstLegDetails.flight_duration_minutes,
      segments |-> <<firstLegDetails, secondLegDetails>>,
      destination |-> destination.name,
      via |-> <<transferAirportKey[1], getIataFromAirportKey(transferAirportKey)[1]>>,
      transferAirport |-> transferAirportKey ]

ConnectingRoute(firstLegDetails, secondLegDetails, transferAirportKey, destination) ==
    [ type |-> "connecting",
      duration |-> firstLegDetails.flight_duration_minutes
                   + secondLegDetails.flight_duration_minutes,
      segments |-> <<firstLegDetails, secondLegDetails>>,
      destination |-> destination.name,
      via |-> <<transferAirportKey[1], getIataFromAirportKey(transferAirportKey)[1]>>,
      transferAirport |-> transferAirportKey ]

\* if (transferAirportKey === originKey || transferAirportKey === `${name}, ${country}`) return;
SkipTransfer(transferAirportKey, originKey, destination) ==
    transferAirportKey = originKey \/ transferAirportKey = destinationKey(destination)

\* transferAirports.forEach(...): the connecting routes pushed for the first
\* n transfer airports, in iteration order
RECURSIVE ConnectingRoutes(_, _, _, _)
ConnectingRoutes(transferAirports, n, originKey, destination) ==
    IF n = 0 THEN <<>>
    ELSE LET pushed == ConnectingRoutes(transferAirports, n - 1, originKey, destination)
             transferAirportKey == transferAirports[n]
             firstLegDetails == getFlightDetails(originKey, transferAirportKey)
             secondLegDetails == getFlightDetails(transferAirportKey, destinationKey(destination))
         IN  IF SkipTransfer(transferAirportKey, originKey, destination)
             THEN pushed
             ELSE IF firstLegDetails # null /\ secondLegDetails # null
                  THEN Append(pushed, ConnectingRoute(firstLegDetails, secondLegDetails,
                                                      transferAirportKey, destination))
                  ELSE pushed

\* the connecting flights left in the order they were pushed
InsertUnsorted(sorted, route) == Append(sorted, route)

\* Array.prototype.sort with (a, b) => a.efficiencyRatio - b.efficiencyRatio:
\* ascending and stable
RECURSIVE InsertByEfficiency(_, _)
InsertByEfficiency(sorted, route) ==
    IF sorted = <<>> THEN <<route>>
    ELSE IF FracLeq(sorted[Len(sorted)].efficiencyRatio, route.efficiencyRatio)
         THEN Append(sorted, route)
         ELSE Append(InsertByEfficiency(SubSeq(sorted, 1, Len(sorted) - 1), route),
                     sorted[Len(sorted)])

RECURSIVE SortByEfficiency(_, _)
SortByEfficiency(list, n) ==
    IF n = 0 THEN <<>>
    ELSE InsertByEfficiency(SortByEfficiency(list, n - 1), list[n])

RECURSIVE MapScored(_, _)
MapScored(list, n) ==
    IF n = 0 THEN <<>> ELSE Append(MapScored(list, n - 1), Scored(list[n]))

\* the route currently selected on the page left out of the enumeration
EnumeratedRoutesUnselected(originKey, destination) ==
    LET servicesStartingAirportCombined ==
            combineAirportSets(getDirectServicesFromAirport(originKey),
                               getAirportsServingOrigin(originKey))
        servicesEndingAirportCombined ==
            combineAirportSets(getDirectServicesFromAirport(destinationKey(destination)),
                               getAirportsServingOrigin(destinationKey(destination)))
        directFlight == findDirectFlight(originKey, destinationKey(destination))
        direct == IF directFlight # null
                  THEN <<DirectRoute(directFlight, destination)>> ELSE <<>>
        transferAirports == findIntersection(servicesStartingAirportCombined,
                                             servicesEndingAirportCombined)
        pushed == direct \o ConnectingRoutes(transferAirports, Len(transferAirports),
                                             originKey, destination)
    IN  SelectSeq(MapScored(pushed, Len(pushed)), LAMBDA r : r # selectedRoute)

\* the routes array after the scoring loop, before the partition and sort
EnumeratedRoutes(originKey, destination) ==
    LET servicesStartingAirportCombined ==
            combineAirportSets(getDirectServicesFromAirport(originKey),
                               getAirportsServingOrigin(originKey))
        servicesEndingAirportCombined ==
            combineAirportSets(getDirectServicesFromAirport(destinationKey(destination)),
                               getAirportsServingOrigin(destinationKey(destination)))
        directFlight == findDirectFlight(originKey, destinationKey(destination))
        direct == IF directFlight # null
                  THEN <<DirectRoute(directFlight, destination)>> ELSE <<>>
        transferAirports == findIntersection(servicesStartingAirportCombined,
                                             servicesEndingAirportCombined)
        pushed == direct \o ConnectingRoutes(transferAirports, Len(transferAirports),
                                             originKey, destination)
    IN  MapScored(pushed, Len(pushed))

\* one list sorted by efficiency, without the partition by type
RankRoutesUnpartitioned(scored) == SortByEfficiency(scored, Len(scored))

\* [...directFlights, ...connectingFlights]
RankRoutes(scored) ==
    LET directFlights == SelectSeq(scored, LAMBDA r : r.type = "direct")
        connecting == SelectSeq(scored, LAMBDA r : r.type = "connecting")
        connectingFlights == SortByEfficiency(connecting, Len(connecting))
    IN  directFlights \o connectingFlights

\* the last `end` elements kept instead of the first
sliceLast(array, end) ==
    SubSeq(array, IF Len(array) < end THEN 1 ELSE Len(array) - end + 1, Len(array))

\* array.slice(0, end)
slice(array, end) == SubSeq(array, 1, IF Len(array) < end THEN Len(array) ELSE end)

\* the whole sorted list, without the slice
findRoutesForDestinationUncapped(originKey, destination) ==
    RankRoutes(EnumeratedRoutes(originKey, destination))

findRoutesForDestination(originKey, destination) ==
    slice(RankRoutes(EnumeratedRoutes(originKey, destination)), RouteCap)

(***************************************************************************)
(* The state machine: the load, then any sequence of engine calls, each    *)
(* evaluated to completion before the next one starts.                     *)
(***************************************************************************)
NoCall == [op |-> "none", originKey |-> <<>>, destKey |-> <<>>]

\* no origin: this.selectedOrigin is null or the empty value of the
\* placeholder option of the origin select; the code tests only its
\* truthiness
NoOrigin == <<>>

\* text.trim().split('\n'): an empty text splits into one empty line
SplitLines(text) == IF text = <<>> THEN <<Garbage>> ELSE text

\* try { return JSON.parse(line); } catch (error) { return null; }
ParseLine(line) == IF line.json THEN line.value ELSE null

MapParseLine(lines, n) == [ i \in 1..n |-> ParseLine(lines[i]) ]

\* the load giving up at the first line that does not parse
ParsedLinesBeforeError(text) ==
    LET lines == SplitLines(text)
        bad == { i \in 1..Len(lines) : ~lines[i].json }
        kept == IF bad = {} THEN lines
                ELSE SubSeq(lines, 1, (CHOOSE i \in bad : \A j \in bad : i <= j) - 1)
    IN  SelectSeq(MapParseLine(kept, Len(kept)), LAMBDA item : item # null)

\* lines.map(...).filter(item => item !== null)
ParsedLines(text) ==
    LET lines == SplitLines(text)
    IN  SelectSeq(MapParseLine(lines, Len(lines)), LAMBDA item : item # null)

\* the state the constructor leaves, for a given file on the server
InitWith(response) ==
    /\ file = response
    /\ initStep = "loadFlightData"
    /\ errorsShown = 0
    /\ flightData = null
    /\ loaded = FALSE
    /\ originOptions = {}
    /\ selectedOrigin = NoOrigin
    /\ selectedRoute = null
    /\ columns = <<>>
    /\ optionsVisible = FALSE
    /\ detailsVisible = FALSE
    /\ currentMarkers = {}
    /\ timers = {}
    /\ zoomTimeout = 0
    /\ detect = "notStarted"
    /\ originChosenBy = "nobody"
    /\ call = NoCall
    /\ routes = <<>>
    /\ leg = null
    /\ services = <<>>
    /\ merged = <<>>

Init == \E response \in Responses(Ledgers) : InitWith(response)

\* loadFlightData without the test of response.ok
LoadFlightDataIgnoringStatus ==
    /\ initStep = "loadFlightData"
    /\ file.status # "rejected"
    /\ flightData' = ParsedLines(file.text)
    /\ loaded' = TRUE
    /\ initStep' = "setupUI"
    /\ UNCHANGED <<file, errorsShown, originOptions>>
    /\ UNCHANGED <<uiVars, engineVars>>

\* loadFlightData, the response being ok: this.flightData = the parsed lines
LoadFlightData ==
    /\ initStep = "loadFlightData"
    /\ file.status = "ok"
    /\ flightData' = ParsedLines(file.text)
    /\ loaded' = TRUE
    /\ initStep' = "setupUI"
    /\ UNCHANGED <<file, errorsShown, originOptions>>
    /\ UNCHANGED <<uiVars, engineVars>>

\* loadFlightData throws (fetch rejected, or !response.ok): the catch of
\* init logs the error and calls showError
LoadFlightDataFails ==
    /\ initStep = "loadFlightData"
    /\ file.status # "ok"
    /\ errorsShown' = errorsShown + 1
    /\ initStep' = "failed"
    /\ UNCHANGED <<file, flightData, loaded, originOptions>>
    /\ UNCHANGED <<uiVars, engineVars>>

\* populateOriginDropdown: the IATA codes of the options appended.  Step 1
\* collects the airports with an entry to a destination, step 2 the airports
\* with an entry to one of those; the sort only orders the options.
drIataCodes == { destinations[d].iata : d \in 1..Len(destinations) }

\* every airport of the ledger outside the Dominican Republic offered,
\* however far from a destination
populateOriginDropdownAllAirports ==
    LET pairs == Range(flightData)
    IN  { <<iata>> : iata \in ({ p.airport1_iata : p \in pairs }
                                \cup { p.airport2_iata : p \in pairs })
                               \ drIataCodes }

populateOriginDropdown ==
    LET pairs == Range(flightData)
        directRouteAirports ==
            { p.airport2_iata : p \in { q \in pairs : q.airport1_iata \in drIataCodes
                                                      /\ q.airport2_iata \notin drIataCodes } }
            \cup
            { p.airport1_iata : p \in { q \in pairs : q.airport1_iata \notin drIataCodes
                                                      /\ q.airport2_iata \in drIataCodes } }
        connecting ==
            { p.airport2_iata : p \in { q \in pairs : q.airport1_iata \in directRouteAirports
                                                      /\ q.airport2_iata \notin drIataCodes } }
            \cup
            { p.airport1_iata : p \in { q \in pairs : q.airport2_iata \in directRouteAirports
                                                      /\ q.airport1_iata \notin drIataCodes } }
    IN  { <<iata>> : iata \in directRouteAirports \cup connecting }

\* init after loadFlightData: initMaps, loadWorldMap, setupUI (the dropdown
\* is populated, the change listener registered and detectUserLocation
\* started: it runs up to its first await), hideLoading
SetupUI ==
    /\ initStep = "setupUI"
    /\ originOptions' = populateOriginDropdown
    /\ initStep' = "done"
    /\ detect' = "getBrowserLocation"
    /\ UNCHANGED <<file, errorsShown, flightData, loaded>>
    /\ UNCHANGED <<selectedOrigin, selectedRoute, columns, optionsVisible, detailsVisible,
                   currentMarkers, timers, zoomTimeout, originChosenBy>>
    /\ UNCHANGED engineVars

\* the event listeners are registered: the handlers can run
uiReady == initStep = "done"

\* populateDestinationColumn: one button for each route, with the volume
\* shown on it
RECURSIVE Buttons(_, _)
Buttons(list, n) ==
    IF n = 0 THEN <<>>
    ELSE Append(Buttons(list, n - 1),
                [route |-> list[n], volume |-> calculateRouteVolume(list[n])])

ButtonsOf(list) == Buttons(list, Len(list))

\* displayFlightOptions: the four columns cleared and filled again
DisplayedColumns(origin) ==
    [ d \in 1..Len(destinations) |->
        ButtonsOf(findRoutesForDestination(origin, destinations[d])) ]

\* autoSelectBestRoute: the first button of the first column that has one
AutoSelected(cols) ==
    LET filled == { d \in 1..Len(cols) : Len(cols[d]) > 0 }
    IN  IF filled = {} THEN null
        ELSE cols[CHOOSE d \in filled : \A e \in filled : d <= e][1].route

\* the route selected after autoSelectBestRoute: the one it clicks, the
\* current one when no column has a button
AutoSelectedOr(cols, current) ==
    IF AutoSelected(cols) # null THEN AutoSelected(cols) ELSE current

\* drawFlightPath: a dot marker (addMarker) and a label marker
\* (createLabelsWithCollisionDetection) for the origin of each segment and for
\* the destination.  The order of the array, which only the removal of the
\* layers and the bounds of the group read, is left out.
MarkersOf(route) ==
    { [layer |-> layer, type |-> IF k = 1 THEN "origin" ELSE "transfer",
       cityName |-> route.segments[k].origin_city_name] :
        k \in 1..Len(route.segments), layer \in {"dot", "label"} }
    \cup { [layer |-> layer, type |-> "destination", cityName |-> route.destination] :
             layer \in {"dot", "label"} }

\* if (this.zoomTimeout) clearTimeout(this.zoomTimeout)
ClearedTimers(pending, stored) == IF stored # 0 THEN pending \ { stored } ELSE pending

\* setTimeout: an id no pending timer has (the least one: no finished timer
\* is referred to by its id again)
NewTimerId(pending) ==
    CHOOSE id \in 1..(Cardinality(pending) + 1) :
        id \notin pending /\ \A j \in 1..(id - 1) : j \in pending

\* optimizeWorldMapZoom, called with the markers drawn: nothing when there
\* are none, else the pending zoom cancelled and a new one scheduled
optimizeWorldMapZoom(markers) ==
    IF markers = {} THEN UNCHANGED <<timers, zoomTimeout>>
    ELSE /\ zoomTimeout' = NewTimerId(ClearedTimers(timers, zoomTimeout))
         /\ timers' = ClearedTimers(timers, zoomTimeout) \cup { zoomTimeout' }

\* selectRoute(route): this.selectedRoute set, the route drawn in place of
\* the markers on the map (drawFlightPath: clearRoute, the markers, the
\* deferred zoom) and its details displayed
selectRoute(route) ==
    /\ selectedRoute' = route
    /\ currentMarkers' = MarkersOf(route)
    /\ optimizeWorldMapZoom(currentMarkers')
    /\ detailsVisible' = TRUE

\* displayFlightOptions(origin), called when the map holds the markers given
\* and the details panel is as given: the panel shown, the columns filled,
\* and the first button of the first column that has one clicked
displayFlightOptions(origin, markers, details) ==
    /\ optionsVisible' = TRUE
    /\ columns' = DisplayedColumns(origin)
    /\ IF AutoSelected(columns') # null
       THEN selectRoute(AutoSelected(columns'))
       ELSE /\ selectedRoute' = selectedRoute
            /\ currentMarkers' = markers
            /\ detailsVisible' = details
            /\ UNCHANGED <<timers, zoomTimeout>>

\* onOriginChange: the user picks another option of the origin select;
\* clearRoute, then an origin is displayed (displayFlightOptions) and the
\* placeholder hides the panel (hideFlightOptions)
OnOriginChange ==
    /\ uiReady
    /\ \/ \E value \in originOptions \ { selectedOrigin } :
             /\ selectedOrigin' = value
             /\ displayFlightOptions(value, {}, FALSE)
       \/ /\ selectedOrigin # NoOrigin
          /\ selectedOrigin' = NoOrigin
          /\ currentMarkers' = {}
          /\ detailsVisible' = FALSE
          /\ optionsVisible' = FALSE
          /\ UNCHANGED <<columns, selectedRoute, timers, zoomTimeout>>
    /\ originChosenBy' = "user"
    /\ UNCHANGED detect
    /\ UNCHANGED <<loadVars, engineVars>>

\* the user clicks a button of a destination column
SelectRoute ==
    /\ uiReady
    /\ optionsVisible
    /\ \E d \in 1..Len(columns) : \E i \in 1..Len(columns[d]) :
          selectRoute(columns[d][i].route)
    /\ UNCHANGED <<selectedOrigin, columns, optionsVisible, detect, originChosenBy>>
    /\ UNCHANGED <<loadVars, engineVars>>

\* the callback of the zoom timer runs: it fits the map to the bounds of
\* this.currentMarkers
ZoomTimerFires ==
    /\ \E id \in timers : timers' = timers \ { id }
    /\ UNCHANGED <<selectedOrigin, selectedRoute, columns, optionsVisible, detailsVisible,
                   currentMarkers, zoomTimeout, detect, originChosenBy>>
    /\ UNCHANGED <<loadVars, engineVars>>

\* findClosestAirport: the IATA code of an airport of the ledger that is not
\* a destination, or null; which one is decided by the position given
NoAirport == <<>>
ClosestAirports ==
    { <<p.airport1_iata>> : p \in { q \in Range(flightData) : q.airport1_iata \notin drIataCodes } }
    \cup { <<p.airport2_iata>> : p \in { q \in Range(flightData) : q.airport2_iata \notin drIataCodes } }
    \cup { NoAirport }

\* setDefaultOrigin(airportName): the option with that value, when there is
\* one, selected and displayed
setDefaultOrigin(airportName) ==
    IF airportName \in originOptions
    THEN /\ selectedOrigin' = airportName
         /\ originChosenBy' = "default"
         /\ displayFlightOptions(airportName, currentMarkers, detailsVisible)
    ELSE UNCHANGED <<selectedOrigin, selectedRoute, columns, optionsVisible, detailsVisible,
                     currentMarkers, timers, zoomTimeout, originChosenBy>>

commonOrigins ==
    << <<"New York", "USA">>, <<"Miami", "USA">>, <<"Toronto", "Canada">>,
       <<"Madrid", "Spain">>, <<"Paris", "France">> >>

\* setSmartDefault: the first of commonOrigins that is the value of an
\* option selected and displayed
setSmartDefault ==
    LET found == { k \in 1..Len(commonOrigins) : commonOrigins[k] \in originOptions }
    IN  IF found # {}
        THEN /\ selectedOrigin' = commonOrigins[CHOOSE k \in found : \A m \in found : k <= m]
             /\ originChosenBy' = "default"
             /\ displayFlightOptions(selectedOrigin', currentMarkers, detailsVisible)
        ELSE UNCHANGED <<selectedOrigin, selectedRoute, columns, optionsVisible,
                         detailsVisible, currentMarkers, timers, zoomTimeout, originChosenBy>>

\* getBrowserLocation resolves with a position: the closest airport becomes
\* the default origin, or the IP lookup is awaited when none is close
BrowserLocationResolves ==
    /\ detect = "getBrowserLocation"
    /\ \E closestAirport \in ClosestAirports :
          IF closestAirport # NoAirport
          THEN /\ setDefaultOrigin(closestAirport)
               /\ detect' = "setDefaultOrigin"
          ELSE /\ detect' = "getIPLocation"
               /\ UNCHANGED <<selectedOrigin, selectedRoute, columns, optionsVisible,
                              detailsVisible, currentMarkers, timers, zoomTimeout,
                              originChosenBy>>
    /\ UNCHANGED <<loadVars, engineVars>>

\* getBrowserLocation rejects (not supported, denied, timed out): the IP
\* lookup is awaited
BrowserLocationRejects ==
    /\ detect = "getBrowserLocation"
    /\ detect' = "getIPLocation"
    /\ UNCHANGED <<selectedOrigin, selectedRoute, columns, optionsVisible, detailsVisible,
                   currentMarkers, timers, zoomTimeout, originChosenBy>>
    /\ UNCHANGED <<loadVars, engineVars>>

\* getIPLocation settles: with a location that has a close airport that
\* airport becomes the default origin; with any other location, or null
\* after a failure, setSmartDefault is called
IPLocationSettles ==
    /\ detect = "getIPLocation"
    /\ \E closestAirport \in ClosestAirports :
          IF closestAirport # NoAirport
          THEN /\ setDefaultOrigin(closestAirport)
               /\ detect' = "setDefaultOrigin"
          ELSE /\ setSmartDefault
               /\ detect' = "setSmartDefault"
    /\ UNCHANGED <<loadVars, engineVars>>

\* a call that exchanges the first two entries of this.flightData in place
\* when the first is the shorter flight
FindRoutesSortingLedger ==
    /\ uiReady
    /\ call = NoCall
    /\ \E originKey \in Keys, d \in 1..Len(destinations) :
          /\ call' = [op |-> "findRoutes", originKey |-> originKey,
                      destKey |-> destinationKey(destinations[d])]
          /\ routes' = findRoutesForDestination(originKey, destinations[d])
    /\ leg' = null
    /\ services' = <<>>
    /\ merged' = <<>>
    /\ flightData' =
          IF Len(flightData) > 1
             /\ flightData[1].flight_duration_minutes < flightData[2].flight_duration_minutes
          THEN <<flightData[2], flightData[1]>> \o SubSeq(flightData, 3, Len(flightData))
          ELSE flightData
    /\ UNCHANGED <<file, initStep, errorsShown, loaded, originOptions>>
    /\ UNCHANGED uiVars

\* a call of findRoutesForDestination(originKey, destination)
FindRoutes ==
    /\ uiReady
    /\ call = NoCall
    /\ \E originKey \in Keys, d \in 1..Len(destinations) :
          /\ call' = [op |-> "findRoutes", originKey |-> originKey,
                      destKey |-> destinationKey(destinations[d])]
          /\ routes' = findRoutesForDestination(originKey, destinations[d])
    /\ leg' = null
    /\ services' = <<>>
    /\ merged' = <<>>
    /\ UNCHANGED <<loadVars, uiVars>>

\* a call of findDirectFlight / getFlightDetails / findBidirectionalFlight
ResolveLeg ==
    /\ uiReady
    /\ call = NoCall
    /\ \E originKey \in Keys, destKey \in Keys :
          /\ call' = [op |-> "resolve", originKey |-> originKey, destKey |-> destKey]
          /\ leg' = getFlightDetails(originKey, destKey)
    /\ routes' = <<>>
    /\ services' = <<>>
    /\ merged' = <<>>
    /\ UNCHANGED <<loadVars, uiVars>>

\* the combined service set of one airport key (steps 1-3 of the enumerator)
CombineServices ==
    /\ uiReady
    /\ call = NoCall
    /\ \E airportKey \in Keys :
          /\ call' = [op |-> "services", originKey |-> airportKey, destKey |-> <<>>]
          /\ services' = reachableSet(airportKey)
    /\ routes' = <<>>
    /\ leg' = null
    /\ merged' = <<>>
    /\ UNCHANGED <<loadVars, uiVars>>

\* a call of combineAirlineData([leg1], [leg2]) for the airlines of two legs
CombineAirlineData ==
    /\ uiReady
    /\ call = NoCall
    /\ \E list1 \in AirlineLists, list2 \in AirlineLists :
          /\ call' = [op |-> "combineAirlineData",
                      airlines1 |-> <<[airlines |-> list1]>>,
                      airlines2 |-> <<[airlines |-> list2]>>]
          /\ merged' = combineAirlineData(<<[airlines |-> list1]>>,
                                          <<[airlines |-> list2]>>)
    /\ routes' = <<>>
    /\ leg' = null
    /\ services' = <<>>
    /\ UNCHANGED <<loadVars, uiVars>>

\* the caller is done with the value returned; the engine keeps nothing of it
Discard ==
    /\ call # NoCall
    /\ call' = NoCall
    /\ routes' = <<>>
    /\ leg' = null
    /\ services' = <<>>
    /\ merged' = <<>>
    /\ UNCHANGED <<loadVars, uiVars>>

\* the engine under any sequence of calls
Next ==
    \/ LoadFlightData \/ LoadFlightDataFails \/ SetupUI
    \/ FindRoutes \/ ResolveLeg \/ CombineServices \/ Discard

Spec == Init /\ [][Next]_vars

\* the airline merge called on any two legs
InitAirlines == \E response \in Responses({ <<>> }) : InitWith(response)

NextAirlines ==
    \/ LoadFlightData \/ LoadFlightDataFails \/ SetupUI
    \/ CombineAirlineData \/ Discard

SpecAirlines == InitAirlines /\ [][NextAirlines]_vars

\* the engine over the files with malformed lines and failing responses
InitLoad == \E response \in LoadResponses : InitWith(response)

SpecLoad == InitLoad /\ [][Next]_vars

\* a user session: the handlers of the page and the route queries
InitSession == \E response \in Responses(SessionLedgers) : InitWith(response)

NextSession ==
    \/ LoadFlightData \/ LoadFlightDataFails \/ SetupUI
    \/ OnOriginChange \/ SelectRoute
    \/ FindRoutes \/ Discard

SpecSession == InitSession /\ [][NextSession]_vars

\* the page: the handlers, the location detection started by setupUI and
\* the zoom timers, in any interleaving
InitPage == \E response \in Responses(PageLedgers) : InitWith(response)

NextPage ==
    \/ LoadFlightData \/ LoadFlightDataFails \/ SetupUI
    \/ BrowserLocationResolves \/ BrowserLocationRejects \/ IPLocationSettles
    \/ OnOriginChange \/ SelectRoute \/ ZoomTimerFires

SpecPage == InitPage /\ [][NextPage]_vars

\* the engine over the hub ledgers
InitHubs == \E response \in Responses(HubLedgers) : InitWith(response)

SpecHubs == InitHubs /\ [][Next]_vars
(***************************************************************************)
(* Vocabulary of the properties.                                           *)
(***************************************************************************)
\* the destination record a findRoutes call was made for
CalledDestination ==
    CHOOSE d \in Range(destinations) : destinationKey(d) = call.destKey

\* a raw entry of the ledger joins the two display names, in either orientation
HasRawEdge(k1, k2) ==
    \E i \in 1..Len(flightData) :
        \/ airport1Key(flightData[i]) = k1 /\ airport2Key(flightData[i]) = k2
        \/ airport1Key(flightData[i]) = k2 /\ airport2Key(flightData[i]) = k1

\* the key names an airport of some entry of the ledger: by IATA code for an
\* IATA key, by city and country for a display name
KnownToLedger(key) ==
    \E i \in 1..Len(flightData) :
        IF Len(key) = 1
        THEN key[1] \in { flightData[i].airport1_iata, flightData[i].airport2_iata }
        ELSE key \in { airport1Key(flightData[i]), airport2Key(flightData[i]) }

\* the transfer airports of the connecting candidates returned
ReturnedTransfers ==
    { routes[i].transferAirport : i \in { k \in 1..Len(routes) : routes[k].type = "connecting" } }

\* the airline set of a leg: name, days per week, season start and end
AirlineSet(flight) ==
    { [name |-> flight.airlines[i].airline_name,
       days |-> flight.airlines[i].days_per_week,
       start |-> flight.airlines[i].service_start_month,
       end |-> flight.airlines[i].service_end_month] : i \in 1..Len(flight.airlines) }

(***************************************************************************)
(* C1  In the list returned by findRoutesForDestination every candidate    *)
(* of type 'direct' is at a lower index than every candidate of type       *)
(* 'connecting'.                                                           *)
(***************************************************************************)
C1_DirectBeforeConnecting ==
    call.op = "findRoutes" =>
        \A i, j \in 1..Len(routes) :
            routes[i].type = "direct" /\ routes[j].type = "connecting" => i < j

\* a returned list holding a direct candidate and a connecting candidate
C1_Witness ==
    /\ call.op = "findRoutes"
    /\ \E i, j \in 1..Len(routes) :
          routes[i].type = "direct" /\ routes[j].type = "connecting"

(***************************************************************************)
(* C2  The transfer airports of the connecting candidates produced by      *)
(* findRoutesForDestination(origin, destination) are exactly the airports  *)
(* t, different from the origin and the destination, that are in both      *)
(* reachableSet(origin) and reachableSet(destination); an airport with no  *)
(* raw edge to the origin or no raw edge to the destination never appears  *)
(* as a transfer airport.                                                  *)
(***************************************************************************)
C2_TransfersAreIntersection ==
    call.op = "findRoutes" =>
        LET origin == normalizeAirportKey(call.originKey)
        IN  /\ ReturnedTransfers =
                 { t \in Range(reachableSet(call.originKey))
                           \cap Range(reachableSet(call.destKey)) :
                       t # origin /\ t # call.destKey }
            /\ \A t \in ReturnedTransfers :
                 HasRawEdge(origin, t) /\ HasRawEdge(t, call.destKey)

C4_DuplicateTakesMaxDuration ==
    call.op = "resolve" =>
        \A i, j \in 1..Len(flightData) :
            /\ i # j
            /\ flightData[i].airport1_iata = flightData[j].airport2_iata
            /\ flightData[i].airport2_iata = flightData[j].airport1_iata
            /\ flightData[i].flight_duration_minutes > flightData[j].flight_duration_minutes
            /\ {call.originKey[1], call.destKey[1]}
                 = {flightData[i].airport1_iata, flightData[i].airport2_iata}
            => /\ leg # null
               /\ leg.flight_duration_minutes = flightData[i].flight_duration_minutes

(***************************************************************************)
(* C5  The list returned by findRoutesForDestination never contains two    *)
(* connecting candidates with the same via city and the same total         *)
(* duration.                                                               *)
(***************************************************************************)
C5_NoDuplicateViaCityAndDuration ==
    call.op = "findRoutes" =>
        \A i, j \in 1..Len(routes) :
            /\ routes[i].type = "connecting" /\ routes[j].type = "connecting"
            /\ routes[i].via[1] = routes[j].via[1]
            /\ routes[i].duration = routes[j].duration
            => i = j

(***************************************************************************)
(* C6  No connecting candidate returned by findRoutesForDestination has    *)
(* the queried origin or the queried destination as its transfer airport,  *)
(* whether the origin key is an IATA code or a 'City, Country' name.       *)
(***************************************************************************)
C6_TransferIsNotOriginOrDestination ==
    call.op = "findRoutes" =>
        \A i \in 1..Len(routes) :
            routes[i].type = "connecting" =>
                /\ routes[i].transferAirport # normalizeAirportKey(call.originKey)
                /\ routes[i].transferAirport # call.destKey

(***************************************************************************)
(* C7  If the ledger stores one raw edge for a pair, recorded as A->B,     *)
(* then resolve(B,A) returns a leg whose origin city, country, IATA code   *)
(* and coordinates are those recorded for B, not those of A.               *)
(***************************************************************************)
C7_ReverseLegCarriesOwnOrigin ==
    call.op = "resolve" /\ Len(call.originKey) = 1 /\ Len(call.destKey) = 1 =>
        \A i \in 1..Len(flightData) :
            /\ flightData[i].airport1_iata = call.destKey[1]
            /\ flightData[i].airport2_iata = call.originKey[1]
            /\ \A j \in 1..Len(flightData) :
                  {flightData[j].airport1_iata, flightData[j].airport2_iata}
                    = {call.originKey[1], call.destKey[1]} => j = i
            => /\ leg # null
               /\ leg.origin_airport_iata = flightData[i].airport2_iata
               /\ leg.origin_city_name = flightData[i].airport2_city_name
               /\ leg.origin_country = flightData[i].airport2_country
               /\ leg.origin_airport_coordinates = flightData[i].airport2_coordinates

(***************************************************************************)
(* C8  Y is in reachableSet(X) if and only if resolve(X,Y) finds a leg,    *)
(* and X is never a member of reachableSet(X).                             *)
(***************************************************************************)
C8_ReachableIffResolvable ==
    call.op = "services" =>
        /\ \A Y \in DisplayKeys \cup {UnknownKey} :
              Y \in Range(services) <=> findDirectFlight(call.originKey, Y) # null
        /\ normalizeAirportKey(call.originKey) \notin Range(services)

(***************************************************************************)
(* C9  Every connecting candidate via transfer airport t has exactly two   *)
(* legs, the first the leg resolved for (origin, t) and the second the leg *)
(* resolved for (t, destination), both found; its duration is the sum of   *)
(* the two legs' durations and t is its via label and transferAirport.     *)
(***************************************************************************)
C9_ConnectingIsTwoResolvedLegs ==
    call.op = "findRoutes" =>
        \A i \in 1..Len(routes) :
            routes[i].type = "connecting" =>
                LET t == routes[i].transferAirport
                    leg1 == getFlightDetails(call.originKey, t)
                    leg2 == getFlightDetails(t, call.destKey)
                IN  /\ Len(routes[i].segments) = 2
                    /\ leg1 # null /\ leg2 # null
                    /\ routes[i].segments[1] = leg1
                    /\ routes[i].segments[2] = leg2
                    /\ routes[i].duration = leg1.flight_duration_minutes
                                            + leg2.flight_duration_minutes
                    /\ routes[i].via[1] = t[1]
                    /\ HasRawEdge(normalizeAirportKey(call.originKey), t)
                    /\ HasRawEdge(t, call.destKey)

\* a connecting candidate whose two legs have different durations
C9_Witness ==
    /\ call.op = "findRoutes"
    /\ \E i \in 1..Len(routes) :
          /\ routes[i].type = "connecting"
          /\ routes[i].segments[1].flight_duration_minutes
               # routes[i].segments[2].flight_duration_minutes

(***************************************************************************)
(* C10  In the list returned by findRoutesForDestination the connecting    *)
(* candidates are in non-decreasing order of efficiencyRatio, and so are   *)
(* the direct candidates among themselves.                                 *)
(***************************************************************************)
C10_SortedByEfficiency ==
    call.op = "findRoutes" =>
        \A i, j \in 1..Len(routes) :
            i < j /\ routes[i].type = routes[j].type =>
                /\ FracLeq(routes[i].efficiencyRatio, routes[j].efficiencyRatio)
                /\ routes[i].efficiencyRatio
                     = FracDiv(Frac(routes[i].duration, 1), routes[i].volumeFactor)

\* two connecting candidates that the sort had to exchange: the one pushed
\* first has the strictly larger ratio
C10_Witness ==
    /\ call.op = "findRoutes"
    /\ LET pushed == EnumeratedRoutes(call.originKey, CalledDestination)
       IN  \E i, j \in 1..Len(pushed) :
              /\ i < j
              /\ pushed[i].type = "connecting" /\ pushed[j].type = "connecting"
              /\ FracLess(pushed[j].efficiencyRatio, pushed[i].efficiencyRatio)


(***************************************************************************)
(* C11  The list returned by findRoutesForDestination never has more than  *)
(* 30 entries, also for a ledger with more than 30 valid transfer airports *)
(* between the origin and the destination.                                 *)
(***************************************************************************)
C11_AtMostRouteCap ==
    call.op = "findRoutes" => Len(routes) <= RouteCap

\* more than 30 candidates were enumerated and 30 of them returned
C11_Witness ==
    /\ call.op = "findRoutes"
    /\ Len(EnumeratedRoutes(call.originKey, CalledDestination)) > RouteCap
    /\ Len(routes) = RouteCap


(***************************************************************************)
(* C12  For a ledger holding exactly A->B (90 minutes) and B->C (120       *)
(* minutes), each flown by one airline Jan-Dec 7 days a week, and no A-C   *)
(* entry, findRoutes(A, C) returns exactly one candidate: connecting via   *)
(* B, duration 210, volumeFactor 1.0, efficiencyRatio 210; no direct one.  *)
(* Here A = JFK, B = SJC, C = POP.                                         *)
(***************************************************************************)
C12_Scenario ==
    /\ call.op = "findRoutes"
    /\ Len(flightData) = 2
    /\ Range(flightData) = { AirportPair(JFK, SJC, 90, Daily),
                             AirportPair(SJC, POP, 120, Daily) }
    /\ call.originKey \in { <<"JFK">>, <<"New York", "USA">> }
    /\ call.destKey = <<"Puerto Plata", "Dominican Republic">>

C12_OneConnectingCandidate ==
    C12_Scenario =>
        /\ Len(routes) = 1
        /\ routes[1].type = "connecting"
        /\ routes[1].transferAirport = <<"San Jose", "USA">>
        /\ routes[1].via = <<"San Jose", "SJC">>
        /\ routes[1].duration = 210
        /\ routes[1].volumeFactor = Frac(1, 1)
        /\ routes[1].efficiencyRatio = Frac(210, 1)

\* the scenario queried with the IATA code of A, the ledger listing B->C first
C12_Witness ==
    /\ C12_Scenario
    /\ call.originKey = <<"JFK">>
    /\ flightData[1].airport1_iata = "SJC"
    /\ Len(routes) = 1


(***************************************************************************)
(* C13  A query whose origin key, or whose destination, matches no airport *)
(* of the ledger returns the empty candidate list, the same value as for a *)
(* known airport without routes, and no error: the call completes with a   *)
(* list.                                                                   *)
(***************************************************************************)
C13_UnknownAirportGivesNoRoutes ==
    /\ call.op = "findRoutes"
    /\ ~KnownToLedger(call.originKey) \/ ~KnownToLedger(call.destKey)
    => routes = <<>>

\* an origin key that is in no entry, queried for a destination that the
\* ledger does serve
C13_Witness ==
    /\ call.op = "findRoutes"
    /\ ~KnownToLedger(call.originKey)
    /\ KnownToLedger(call.destKey)
    /\ routes = <<>>


(***************************************************************************)
(* C14  If loading the flight data fails as a whole (the response is not   *)
(* ok, or the fetch is rejected), initialization stops in an error state:  *)
(* flightData is never assigned, setupUI never runs, so that no route      *)
(* query is ever evaluated, and exactly one error is shown to the user.    *)
(***************************************************************************)
C14_FailedLoadStopsInit ==
    file.status # "ok" =>
        /\ flightData = null /\ ~loaded
        /\ initStep \in {"loadFlightData", "failed"}
        /\ originOptions = {} /\ selectedOrigin = NoOrigin /\ columns = <<>>
        /\ call = NoCall /\ routes = <<>>
        /\ errorsShown = IF initStep = "failed" THEN 1 ELSE 0

\* init has failed on a response that is not ok and whose body has lines
\* that parse
C14_Witness ==
    /\ file.status = "notOk"
    /\ \E i \in 1..Len(file.text) : file.text[i].json
    /\ initStep = "failed"
    /\ errorsShown = 1

(***************************************************************************)
(* C15  A load whose response is ok completes whatever lines are           *)
(* malformed: the ledger holds one record for every well-formed entry of   *)
(* the file, in the order of the file, and none for a malformed line, at   *)
(* any position and in any number; no error is shown.                      *)
(***************************************************************************)
C15_MalformedLinesSkipped ==
    LET wellFormed == { i \in 1..Len(file.text) :
                            file.text[i].json /\ file.text[i].value # null }
    IN  /\ file.status = "ok" /\ initStep # "loadFlightData" =>
              /\ loaded
              /\ errorsShown = 0
              /\ Len(flightData) = Cardinality(wellFormed)
              /\ \A i \in wellFormed :
                    flightData[Cardinality({ j \in wellFormed : j <= i })]
                        = file.text[i].value

\* a loaded file with a malformed line between two entries
C15_Witness ==
    /\ loaded
    /\ Len(file.text) = 3
    /\ file.text[1].json /\ file.text[1].value # null
    /\ ~file.text[2].json
    /\ file.text[3].json /\ file.text[3].value # null
    /\ Len(flightData) = 2


(***************************************************************************)
(* C16  After a successful load, every origin change, route query (for     *)
(* the four destinations), route selection and scoring call leaves         *)
(* flightData equal to its value right after the load.                     *)
(***************************************************************************)
C16_LedgerUnchangedAfterLoad ==
    [][loaded => flightData' = flightData]_vars

\* a session in which the user has selected a route other than the one
\* selected automatically, and a query has returned candidates
C16_Witness ==
    /\ loaded /\ Len(flightData) > 1
    /\ optionsVisible
    /\ selectedRoute # null /\ selectedRoute # AutoSelected(columns)
    /\ call.op = "findRoutes" /\ routes # <<>>

MonthNumber(month) == CHOOSE i \in 1..Len(months) : months[i] = month

C18_ConservativeMerge ==
    call.op = "combineAirlineData" =>
        LET list1 == call.airlines1[1].airlines
            list2 == call.airlines2[1].airlines
            names1 == { list1[i].airline_name : i \in 1..Len(list1) }
            names2 == { list2[i].airline_name : i \in 1..Len(list2) }
            of1(name) == CHOOSE a \in Range(list1) : a.airline_name = name
            of2(name) == CHOOSE a \in Range(list2) : a.airline_name = name
            swapped == combineAirlineData(call.airlines2, call.airlines1)
        IN  /\ Len(merged) = Cardinality(names1 \cup names2)
            /\ { merged[i].airline_name : i \in 1..Len(merged) } = names1 \cup names2
            /\ \A e \in Range(merged) :
                  LET name == e.airline_name
                  IN  /\ name \in names1 \ names2 => e = of1(name)
                      /\ name \in names2 \ names1 => e = of2(name)
                      /\ name \in names1 \cap names2 =>
                            LET x == of1(name)
                                y == of2(name)
                            IN  /\ e.days_per_week \in {x.days_per_week, y.days_per_week}
                                /\ e.days_per_week <= x.days_per_week
                                /\ e.days_per_week <= y.days_per_week
                                /\ e.service_start_month
                                     \in {x.service_start_month, y.service_start_month}
                                /\ MonthNumber(e.service_start_month)
                                     >= MonthNumber(x.service_start_month)
                                /\ MonthNumber(e.service_start_month)
                                     >= MonthNumber(y.service_start_month)
                                /\ e.service_end_month
                                     \in {x.service_end_month, y.service_end_month}
                                /\ MonthNumber(e.service_end_month)
                                     <= MonthNumber(x.service_end_month)
                                /\ MonthNumber(e.service_end_month)
                                     <= MonthNumber(y.service_end_month)
            /\ Range(swapped) = Range(merged)

\* an airline on both legs whose days, start and end all differ, the first
\* leg having the later end, and an airline of the second leg only
C18_Witness ==
    /\ call.op = "combineAirlineData"
    /\ \E x \in Range(call.airlines1[1].airlines), y \in Range(call.airlines2[1].airlines) :
          /\ x.airline_name = y.airline_name
          /\ x.days_per_week # y.days_per_week
          /\ x.service_start_month # y.service_start_month
          /\ MonthNumber(x.service_end_month) > MonthNumber(y.service_end_month)
    /\ \E y \in Range(call.airlines2[1].airlines) :
          \A x \in Range(call.airlines1[1].airlines) : x.airline_name # y.airline_name
    /\ Len(merged) = 2


(***************************************************************************)
(* C19  Every candidate returned has volumeFactor = max(routeVolume, 0.1), *)
(* hence at least 0.1, and efficiencyRatio = duration / volumeFactor: the  *)
(* divisor is never zero and the ratio is finite.  The candidates are      *)
(* those on display, routeVolume the volume shown on their buttons.        *)
(***************************************************************************)
C19_VolumeFloorAndRatio ==
    \A d \in 1..Len(columns) : \A i \in 1..Len(columns[d]) :
        LET route == columns[d][i].route
            routeVolume == columns[d][i].volume
        IN  /\ route.volumeFactor
                 = (IF FracLess(routeVolume, Frac(1, 10)) THEN Frac(1, 10) ELSE routeVolume)
            /\ 10 * route.volumeFactor.num >= route.volumeFactor.den
            /\ route.volumeFactor.num > 0 /\ route.volumeFactor.den > 0
            /\ route.efficiencyRatio.den > 0
            /\ route.efficiencyRatio.num * route.volumeFactor.num
                 = route.duration * route.volumeFactor.den * route.efficiencyRatio.den

\* a connecting candidate on display whose route volume is below 0.1
C19_Witness ==
    \E d \in 1..Len(columns) : \E i \in 1..Len(columns[d]) :
        /\ columns[d][i].route.type = "connecting"
        /\ FracLess(columns[d][i].volume, Frac(1, 10))
        /\ columns[d][i].route.volumeFactor = Frac(1, 10)

(***************************************************************************)
(* C20  calculateSegmentVolume(leg) is the sum over the airlines of the    *)
(* leg of monthsActive * days_per_week, divided by 84, where monthsActive  *)
(* is 12 exactly when the season is Jan through Dec and 6 for every other  *)
(* season; the routeVolume of a direct route is the segment volume of its  *)
(* single leg.                                                             *)
(***************************************************************************)
MonthsActive(airline) ==
    IF <<airline.service_start_month, airline.service_end_month>> = <<"Jan", "Dec">>
    THEN 12 ELSE 6

RECURSIVE WeightedDays(_)
WeightedDays(airlineList) ==
    IF airlineList = <<>> THEN 0
    ELSE MonthsActive(Head(airlineList)) * Head(airlineList).days_per_week
         + WeightedDays(Tail(airlineList))

C20_SegmentVolume ==
    \A d \in 1..Len(columns) : \A i \in 1..Len(columns[d]) :
        LET route == columns[d][i].route
        IN  /\ \A k \in 1..Len(route.segments) :
                  LET volume == calculateSegmentVolume(route.segments[k])
                  IN  volume.num * 84
                        = WeightedDays(route.segments[k].airlines) * volume.den
            /\ route.type = "direct" =>
                  /\ Len(route.segments) = 1
                  /\ columns[d][i].volume.num * 84
                        = WeightedDays(route.segments[1].airlines)
                            * columns[d][i].volume.den

\* a direct candidate on display whose leg has an airline starting in Jan
\* without ending in Dec and one ending in Dec without starting in Jan
C20_Witness ==
    \E d \in 1..Len(columns) : \E i \in 1..Len(columns[d]) :
        /\ columns[d][i].route.type = "direct"
        /\ \E a, b \in Range(columns[d][i].route.segments[1].airlines) :
              /\ a.service_start_month = "Jan" /\ a.service_end_month # "Dec"
              /\ b.service_start_month # "Jan" /\ b.service_end_month = "Dec"

(***************************************************************************)
(* C21  For a connecting route, routeVolume is the duration-weighted       *)
(* average of the two legs' segment volumes, the weight of a leg being its *)
(* duration over the sum of the two durations; when the two legs have      *)
(* equal duration it is the simple average (volume1 + volume2) / 2.  The   *)
(* segment volume of a leg is WeightedDays / 84 (C20), and the             *)
(* volumeFactor of a returned candidate is the routeVolume floored at 0.1. *)
(***************************************************************************)
C21_DurationWeightedAverage ==
    call.op = "findRoutes" =>
        \A i \in 1..Len(routes) :
            routes[i].type = "connecting" =>
                LET duration1 == routes[i].segments[1].flight_duration_minutes
                    duration2 == routes[i].segments[2].flight_duration_minutes
                    days1 == WeightedDays(routes[i].segments[1].airlines)
                    days2 == WeightedDays(routes[i].segments[2].airlines)
                    routeVolume == calculateRouteVolume(routes[i])
                IN  /\ routeVolume.den > 0
                    /\ routeVolume.num * 84 * (duration1 + duration2)
                          = (duration1 * days1 + duration2 * days2) * routeVolume.den
                    /\ duration1 = duration2 =>
                          routeVolume.num * 84 * 2 = (days1 + days2) * routeVolume.den
                    /\ routes[i].volumeFactor = FracMax(routeVolume, Frac(1, 10))

\* one returned list with a connecting candidate whose legs have equal
\* durations and different volumes, and one whose legs differ in both
C21_Witness ==
    /\ call.op = "findRoutes"
    /\ \E i, j \in 1..Len(routes) :
          /\ routes[i].type = "connecting" /\ routes[j].type = "connecting"
          /\ routes[i].segments[1].flight_duration_minutes
                = routes[i].segments[2].flight_duration_minutes
          /\ WeightedDays(routes[i].segments[1].airlines)
                # WeightedDays(routes[i].segments[2].airlines)
          /\ routes[j].segments[1].flight_duration_minutes
                # routes[j].segments[2].flight_duration_minutes
          /\ WeightedDays(routes[j].segments[1].airlines)
                # WeightedDays(routes[j].segments[2].airlines)

(***************************************************************************)
(* C22  Of two candidates of a returned list with equal volumeFactor the   *)
(* longer never has the smaller efficiencyRatio, and of two with equal     *)
(* duration the one with the larger volumeFactor never has the larger      *)
(* efficiencyRatio.                                                        *)
(***************************************************************************)
C22_RatioMonotone ==
    call.op = "findRoutes" =>
        \A i, j \in 1..Len(routes) :
            /\ routes[i].volumeFactor = routes[j].volumeFactor
               /\ routes[i].duration >= routes[j].duration
               => FracLeq(routes[j].efficiencyRatio, routes[i].efficiencyRatio)
            /\ routes[i].duration = routes[j].duration
               /\ FracLess(routes[j].volumeFactor, routes[i].volumeFactor)
               => FracLeq(routes[i].efficiencyRatio, routes[j].efficiencyRatio)

\* a returned list with two candidates of equal volumeFactor and different
\* durations, and two of equal duration and different volumeFactor
C22_Witness ==
    /\ call.op = "findRoutes"
    /\ \E i, j \in 1..Len(routes) :
          /\ routes[i].volumeFactor = routes[j].volumeFactor
          /\ routes[i].duration > routes[j].duration
    /\ \E i, j \in 1..Len(routes) :
          /\ routes[i].duration = routes[j].duration
          /\ FracLess(routes[j].volumeFactor, routes[i].volumeFactor)
          /\ FracLess(routes[i].efficiencyRatio, routes[j].efficiencyRatio)

(***************************************************************************)
(* C23  An origin chosen by the user is never replaced by the detected     *)
(* default: once onOriginChange has run for a selection of the user, no    *)
(* completion of the geolocation or IP lookup (setDefaultOrigin,           *)
(* setSmartDefault) changes selectedOrigin, the value of the select or the *)
(* flight options on display, in any interleaving of the change event with *)
(* the lookups.                                                            *)
(***************************************************************************)
C23_UserOriginKept ==
    [][ originChosenBy = "user" /\ selectedOrigin # NoOrigin /\ detect' # detect
        => /\ selectedOrigin' = selectedOrigin
           /\ columns' = columns
           /\ optionsVisible' = optionsVisible ]_vars

(***************************************************************************)
(* C24  Whenever the deferred zoom callback scheduled by                   *)
(* optimizeWorldMapZoom runs, currentMarkers is not empty and holds the    *)
(* markers of the route drawn last, in every interleaving of route         *)
(* selections, origin changes (clearing the origin calls clearRoute) and   *)
(* timer firings; at most one deferred zoom is pending at any time.        *)
(***************************************************************************)
C24_ZoomSeesDrawnRoute ==
    [][ /\ Cardinality(timers') <= 1
        /\ Cardinality(timers') < Cardinality(timers)
           => /\ currentMarkers # {}
              /\ currentMarkers = MarkersOf(selectedRoute) ]_vars

(***************************************************************************)
(* C25  If neither the browser geolocation nor the IP lookup yields a      *)
(* default origin, detectUserLocation falls back to setSmartDefault, which *)
(* selects the first of New York, Miami, Toronto, Madrid, Paris whose      *)
(* airport is an option of the origin dropdown, sets selectedOrigin to it  *)
(* and displays its flight options.                                        *)
(***************************************************************************)
\* the common origins, by position, that have an airport among the options
CommonOriginsOffered ==
    { k \in 1..Len(commonOrigins) :
        \E value \in originOptions : iataToDisplayName(value) = commonOrigins[k] }

C25_SmartDefaultSelects ==
    [][ detect # "setSmartDefault" /\ detect' = "setSmartDefault"
        /\ CommonOriginsOffered # {}
        => /\ selectedOrigin' \in originOptions
           /\ iataToDisplayName(selectedOrigin')
                = commonOrigins[CHOOSE k \in CommonOriginsOffered :
                                    \A m \in CommonOriginsOffered : k <= m]
           /\ optionsVisible'
           /\ columns' = DisplayedColumns(selectedOrigin') ]_vars

(***************************************************************************)
(* C26  Every origin offered by populateOriginDropdown has a route: for    *)
(* the value of each option there is one of the four destinations for      *)
(* which findRoutesForDestination returns a non-empty list, whatever the   *)
(* ledger.                                                                 *)
(***************************************************************************)
C26_OfferedOriginHasRoute ==
    uiReady /\ call = NoCall
    => \A value \in originOptions :
          \E d \in 1..Len(destinations) :
              findRoutesForDestination(value, destinations[d]) # <<>>

\* an airport offered by step 2 alone: no entry joins it to a destination,
\* and its only candidates are connecting ones
C26_Witness ==
    /\ uiReady /\ call = NoCall
    /\ <<"SJO">> \in originOptions
    /\ \A i \in 1..Len(flightData) :
          "SJO" \in { flightData[i].airport1_iata, flightData[i].airport2_iata }
          => { flightData[i].airport1_iata, flightData[i].airport2_iata }
                \cap drIataCodes = {}
    /\ findRoutesForDestination(<<"SJO">>, destinations[1]) # <<>>
    /\ <<"LGA">> \in originOptions /\ <<"JFK">> \in originOptions

(***************************************************************************)
(* C27  When findDirectFlight(origin, destination) finds a leg, the list   *)
(* returned by findRoutesForDestination has exactly one candidate of type  *)
(* 'direct', at index 0, made of that leg, and the slice to 30 keeps it    *)
(* however many connecting candidates there are; when no leg is found the  *)
(* list has no direct candidate.                                           *)
(***************************************************************************)
C27_OneDirectFirst ==
    call.op = "findRoutes" =>
        LET directFlight == findDirectFlight(call.originKey, call.destKey)
            directs == { i \in 1..Len(routes) : routes[i].type = "direct" }
        IN  IF directFlight # null
            THEN /\ directs = { 1 }
                 /\ routes[1].segments = <<directFlight>>
            ELSE directs = {}

\* a direct leg together with more connecting candidates than the slice keeps
C27_Witness ==
    /\ call.op = "findRoutes"
    /\ findDirectFlight(call.originKey, call.destKey) # null
    /\ Len(findRoutesForDestinationUncapped(call.originKey, CalledDestination)) > RouteCap
    /\ Len(routes) = RouteCap
    /\ routes[1].type = "direct"
    /\ \A i \in 2..Len(routes) : routes[i].type = "connecting"

(***************************************************************************)
(* C28  After displayFlightOptions(origin), run by onOriginChange or by    *)
(* setDefaultOrigin, if one of the four columns has a candidate the        *)
(* selected route is the candidate at index 0 of the first non-empty       *)
(* column, in the order Puerto Plata, Santiago, Santo Domingo, Punta Cana; *)
(* and whenever the flight details are visible the first leg of the        *)
(* selected route starts at the airport of the selected origin.            *)
(***************************************************************************)
C28_SelectedRouteOfOrigin ==
    [][ /\ ( /\ selectedOrigin' # NoOrigin
              /\ \/ selectedOrigin' # selectedOrigin
                 \/ detect' # detect /\ originChosenBy' = "default" )
           => LET filled == { d \in 1..Len(destinations) : Len(columns'[d]) > 0 }
              IN  /\ columns' = DisplayedColumns(selectedOrigin')
                  /\ filled # {}
                     => selectedRoute'
                          = columns'[CHOOSE d \in filled : \A e \in filled : d <= e][1].route
        /\ detailsVisible'
           => /\ selectedRoute' # null
              /\ selectedOrigin' # NoOrigin
              /\ selectedRoute'.segments[1].origin_airport_iata = selectedOrigin'[1] ]_vars

(***************************************************************************)
(* C29  The airport key round-trips: for every IATA code c of the ledger   *)
(* displayNameToIata(iataToDisplayName(c)) = c, so that the route query,   *)
(* which compares normalized keys, resolves the legs of two airports with  *)
(* different codes to entries of their own; for every ledger, also one in  *)
(* which two airports share a city and country.                            *)
(***************************************************************************)
C29_KeyRoundTrip ==
    loaded /\ call = NoCall
    => \A i \in 1..Len(flightData) :
          \A c \in { flightData[i].airport1_iata, flightData[i].airport2_iata } :
              /\ displayNameToIata(iataToDisplayName(<<c>>)) = <<c>>
              /\ \A destKey \in DisplayKeys :
                    getFlightDetails(<<c>>, destKey) # null
                    => getFlightDetails(<<c>>, destKey).origin_airport_iata = c

(***************************************************************************)
(* C30  getAirportsServingOrigin(X) returns the same set as                *)
(* getDirectServicesFromAirport(X) for every airport key X and every       *)
(* ledger, so the combined set of combineAirportSets is equal to either    *)
(* of the two.                                                             *)
(***************************************************************************)
C30_ServiceSetsAgree ==
    call.op = "services" =>
        LET set1 == getDirectServicesFromAirport(call.originKey)
            set2 == getAirportsServingOrigin(call.originKey)
        IN  /\ Range(set2) = Range(set1)
            /\ Range(services) = Range(set1)
            /\ Range(services) = Range(set2)
            /\ Len(services) = Cardinality(Range(set1))

\* an airport that is airport1 of one entry and airport2 of another, with
\* two different airports at the other ends
C30_Witness ==
    /\ call.op = "services"
    /\ Len(services) >= 2
    /\ \E i, j \in 1..Len(flightData) :
          /\ airport1Key(flightData[i]) = normalizeAirportKey(call.originKey)
          /\ airport2Key(flightData[j]) = normalizeAirportKey(call.originKey)
          /\ airport2Key(flightData[i]) # airport1Key(flightData[j])

====
